---- MODULE Spec2Model ----
(***************************************************************************)
(* Model of pyApp.py, the virtual meter data generator: the extraction of  *)
(* the meter list from the uploaded table, the timestamp grid, the         *)
(* construction and validation of the full dataset, its split into chunks  *)
(* and the control flow of main() that chains them.                        *)
(*                                                                         *)
(* A string is a sequence of one-character strings.  A cell of the         *)
(* uploaded table is a string or NaN.  A table (DataFrame) is a sequence   *)
(* of rows, a row a sequence of cells.  TLA+ sequences are 1-based: row i  *)
(* of a table carries the pandas index label i - 1.                        *)
(***************************************************************************)
EXTENDS Integers, Sequences, FiniteSets, TLC

VARIABLES
    pc,                 \* the place main() has reached, or the call under way
    uploaded_file,      \* the table held by the uploaded file
    start_date,         \* sidebar: day number of the start date
    end_date,           \* sidebar: day number of the end date
    frequency,          \* sidebar: frequency alias
    num_files,          \* sidebar: number of output files
    df,                 \* the table read in step 1
    meters,             \* unique_meters of validate_uploaded_file
    invalid_meters,
    duplicate_meters,
    validation_issues,
    timestamps,
    full_df,
    validation_errors,
    warnings,
    chunks,
    zip_files,          \* the entries written to zip_buffer
    progress,           \* the value of the progress bar, -1 before it exists
    st_error,           \* the messages shown with st.error, in order
    download,           \* whether st.download_button offers the archive
    raised              \* the exception a function called on its own raised

vars == <<pc, uploaded_file, start_date, end_date, frequency, num_files, df,
          meters, invalid_meters, duplicate_meters, validation_issues,
          timestamps, full_df, validation_errors, warnings,
          chunks, zip_files, progress, st_error, download, raised>>

(***************************************************************************)
(* Bounds of the model.                                                    *)
(***************************************************************************)
\* rows of an uploaded table, header included, when validate_uploaded_file
\* is called on its own
MaxRows == 4
\* rows of the table uploaded to main(), header included
MaxUploadRows == 3
\* meters of the list handed to create_full_df when it is called on its own
MaxMeters == 2
\* the dates of the sidebar are BaseDate + 0 .. BaseDate + MaxDay
MaxDay == 1
\* largest number of output files tried (the slider goes to 50)
MaxFiles == 2
\* rows of the datasets handed to split_dataframe and validate_generated_df
\* when they are called on their own
MaxLen == 3

(***************************************************************************)
(* Strings.                                                                *)
(***************************************************************************)
Chars == {" ", "A", "B"}

\* code point of a character: the order Python compares strings by
Ord(c) == CASE c = " " -> 32 [] c = "A" -> 65 [] c = "B" -> 66

IsSpace(c) == c = " "

\* the value pandas gives an empty cell
NaN == <<"NaN">>

pd_isna(v) == v = NaN

RECURSIVE lstrip(_)
lstrip(s) == IF s # <<>> /\ IsSpace(Head(s)) THEN lstrip(Tail(s)) ELSE s

RECURSIVE rstrip(_)
rstrip(s) ==
    IF s # <<>> /\ IsSpace(s[Len(s)]) THEN rstrip(SubSeq(s, 1, Len(s) - 1)) ELSE s

\* str.strip()
strip(s) == rstrip(lstrip(s))

\* s < t for Python strings
RECURSIVE StrLess(_, _)
StrLess(s, t) ==
    IF t = <<>> THEN FALSE
    ELSE IF s = <<>> THEN TRUE
    ELSE IF Head(s) # Head(t) THEN Ord(Head(s)) < Ord(Head(t))
    ELSE StrLess(Tail(s), Tail(t))

\* x in a list
InSeq(x, s) == \E i \in 1..Len(s) : s[i] = x

(***************************************************************************)
(* validate_uploaded_file                                                  *)
(***************************************************************************)
\* df.empty: no row or no column
df_empty(t) == Len(t) = 0 \/ Len(t[1]) = 0

\* the loop of lines 33-49 over the data rows i..Len(t) of column 0; dropna()
\* removes the NaN cells before the loop sees them.  acc = [valid, invalid]
RECURSIVE MeterLoop(_, _, _)
MeterLoop(t, i, acc) ==
    IF i > Len(t) THEN acc
    ELSE LET meter == t[i][1]
             idx == i - 1
             original_idx == idx + 2
         IN  IF pd_isna(meter) THEN MeterLoop(t, i + 1, acc)
             ELSE IF strip(meter) = <<>>
             THEN MeterLoop(t, i + 1,
                    [acc EXCEPT !.invalid =
                       Append(@, <<original_idx, meter, "Empty or NaN value">>)])
             ELSE MeterLoop(t, i + 1,
                    [acc EXCEPT !.valid = Append(@, strip(meter))])

\* DedupLoop with seen_meters never filled: every value counts as new
RECURSIVE DedupLoop_never_seen(_, _, _)
DedupLoop_never_seen(valid, i, acc) ==
    IF i > Len(valid) THEN acc
    ELSE DedupLoop_never_seen(valid, i + 1,
           [acc EXCEPT !.unique = Append(@, valid[i])])

\* the loop of lines 56-61.  acc = [unique, duplicate]; seen_meters holds
\* exactly the elements of unique
RECURSIVE DedupLoop(_, _, _)
DedupLoop(valid, i, acc) ==
    IF i > Len(valid) THEN acc
    ELSE IF InSeq(valid[i], acc.unique)
         THEN DedupLoop(valid, i + 1,
                [acc EXCEPT !.duplicate = Append(@, valid[i])])
         ELSE DedupLoop(valid, i + 1,
                [acc EXCEPT !.unique = Append(@, valid[i])])

Issues(dup, inv) ==
    (IF dup # <<>> THEN << <<"duplicate meters", Len(dup)>> >> ELSE <<>>)
    \o (IF inv # <<>> THEN << <<"invalid meter entries", Len(inv)>> >> ELSE <<>>)

NoResult == [unique |-> <<>>, invalid |-> <<>>, duplicate |-> <<>>, issues |-> <<>>]

validate_uploaded_file(t) ==
    IF df_empty(t)
    THEN [raised |-> "Uploaded Excel is empty."] @@ NoResult
    ELSE IF Len(t) <= 1
    THEN [raised |-> "No meter data found after skipping header row."] @@ NoResult
    ELSE LET scan == MeterLoop(t, 2, [valid |-> <<>>, invalid |-> <<>>])
             dd == DedupLoop(scan.valid, 1, [unique |-> <<>>, duplicate |-> <<>>])
         IN  [raised |-> "",
              unique |-> dd.unique,
              invalid |-> scan.invalid,
              duplicate |-> dd.duplicate,
              issues |-> Issues(dd.duplicate, scan.invalid)]

(***************************************************************************)
(* Dates and timestamps.  A date is <<year, month, day>>; the dates the    *)
(* sidebar offers are BaseDate and the MaxDay days after it, a window that *)
(* holds the end of a month.  An instant is the number of minutes since    *)
(* BaseDate 00:00.                                                         *)
(***************************************************************************)
BaseDate == <<2024, 1, 31>>

IsLeap(y) == (y % 4 = 0 /\ y % 100 # 0) \/ y % 400 = 0

DaysInMonth(y, m) ==
    IF m = 2 THEN (IF IsLeap(y) THEN 29 ELSE 28)
    ELSE IF m \in {4, 6, 9, 11} THEN 30 ELSE 31

NextDay(d) ==
    IF d[3] < DaysInMonth(d[1], d[2]) THEN <<d[1], d[2], d[3] + 1>>
    ELSE IF d[2] < 12 THEN <<d[1], d[2] + 1, 1>>
    ELSE <<d[1] + 1, 1, 1>>

RECURSIVE DateOf(_)
DateOf(k) == IF k = 0 THEN BaseDate ELSE NextDay(DateOf(k - 1))

\* the choices of the frequency selectbox
Frequencies == {"30T", "1H", "15T"}

\* minutes of a pandas frequency alias
StepMinutes(f) == CASE f = "30T" -> 30 [] f = "1H" -> 60 [] f = "15T" -> 15

\* datetime.combine(date, datetime.min.time()) of day number d
Midnight(d) == d * 1440

\* pd.date_range(start, end, freq): start, start + step, ... while <= end
generate_timestamps(start, end, freq) ==
    LET step == StepMinutes(freq)
        n == IF end < start THEN 0 ELSE ((end - start) \div step) + 1
    IN  [k \in 1..n |-> start + (k - 1) * step]

\* strftime with the format '%d/%m/%Y %H:00': the minutes are lost
strftime_no_minutes(t) ==
    LET d == DateOf(t \div 1440)
        m == t % 1440
    IN  <<d[3], d[2], d[1], m \div 60, 0>>

\* strftime('%d/%m/%Y %H:%M'): the zero-padded fields of the text in the order
\* they stand in it, <<DD, MM, YYYY, HH, MM>>
strftime(t) ==
    LET d == DateOf(t \div 1440)
        m == t % 1440
    IN  <<d[3], d[2], d[1], m \div 60, m % 60>>

\* s < t for two texts of that format: every field has a fixed width, so the
\* texts compare as their fields do, left to right
RECURSIVE FieldsLess(_, _, _)
FieldsLess(s, t, i) ==
    IF i > Len(s) THEN FALSE
    ELSE IF s[i] # t[i] THEN s[i] < t[i]
    ELSE FieldsLess(s, t, i + 1)

TextLess(s, t) == FieldsLess(s, t, 1)

(***************************************************************************)
(* create_full_df.  A row is [asset_name, Timestamp, kpi_trigger].         *)
(***************************************************************************)
\* r before s in the order of the columns Asset name, Timestamp: both hold text
RowLess(r, s) ==
    \/ StrLess(r.asset_name, s.asset_name)
    \/ r.asset_name = s.asset_name /\ TextLess(r.Timestamp, s.Timestamp)

\* a function on 1..n as a list whose elements are evaluated once
AsList(f) == f \o <<>>

\* DataFrame.sort_values(['Asset name', 'Timestamp']): the rows in ascending
\* order of RowLess, equal rows keeping their order.  As pandas does, each
\* key column is first replaced by the rank of its value among the column's
\* distinct values, and the rows are ordered by the pair of ranks.
sort_values(rows) ==
    LET n == Len(rows)
        names == {rows[i].asset_name : i \in 1..n}
        texts == {rows[i].Timestamp : i \in 1..n}
        NameCode(v) == Cardinality({u \in names : StrLess(u, v)})
        TextCode(v) == Cardinality({u \in texts : TextLess(u, v)})
        key == AsList([i \in 1..n |->
                 NameCode(rows[i].asset_name) * Cardinality(texts)
                   + TextCode(rows[i].Timestamp)])
        place == AsList([i \in 1..n |->
                 Cardinality({j \in 1..n :
                     key[j] < key[i] \/ (key[j] = key[i] /\ j < i)}) + 1])
    IN  [k \in 1..n |-> rows[CHOOSE i \in 1..n : place[i] = k]]

\* np.repeat(meters, n): every meter n times in a row
np_repeat(ms, n) == [i \in 1..(Len(ms) * n) |-> ms[((i - 1) \div n) + 1]]

\* np.repeat in the place of np.tile: every timestamp k times in a row
np_tile_as_repeat(ts, k) == [i \in 1..(Len(ts) * k) |-> ts[((i - 1) \div k) + 1]]

\* np.tile(timestamps, k): the whole grid k times in a row
np_tile(ts, k) == [i \in 1..(Len(ts) * k) |-> ts[((i - 1) % Len(ts)) + 1]]

NoDataset == <<>>

create_full_df(ms, ts) ==
    IF Len(ms) = 0 \/ Len(ts) = 0
    THEN [raised |-> "No meters or timestamps to process", df |-> NoDataset]
    ELSE LET meter_array == np_repeat(ms, Len(ts))
             timestamp_array == np_tile(ts, Len(ms))
             rows == [i \in 1..Len(meter_array) |->
                        [asset_name |-> meter_array[i],
                         Timestamp |-> strftime(timestamp_array[i]),
                         kpi_trigger |-> 1]]
         IN  [raised |-> "", df |-> sort_values(rows)]

(***************************************************************************)
(* validate_generated_df                                                   *)
(***************************************************************************)
SeqSet(s) == {s[i] : i \in 1..Len(s)}

\* full_df['Asset name'].unique()
UniqueMeters(rows) == {rows[i].asset_name : i \in 1..Len(rows)}

\* duplicated(subset=['Asset name', 'Timestamp']).sum(): the rows that repeat
\* the key of an earlier row, which is every row but one of each key
CountDuplicated(rows) ==
    Len(rows) - Cardinality({<<rows[i].asset_name, rows[i].Timestamp>> : i \in 1..Len(rows)})

\* len(full_df[full_df['KPI Trigger'] != 1])
CountInvalidKpi(rows) == Cardinality({i \in 1..Len(rows) : rows[i].kpi_trigger # 1})

\* len(full_df[full_df['Asset name'] == meter])
CountRecords(rows, meter) ==
    Cardinality({i \in 1..Len(rows) : rows[i].asset_name = meter})

Min(a, b) == IF a < b THEN a ELSE b

validate_generated_df(rows, ms, ts) ==
    LET unique_meters_in_df == UniqueMeters(rows)
        missing_meters == SeqSet(ms) \ unique_meters_in_df
        duplicates == CountDuplicated(rows)
        invalid_kpi == CountInvalidKpi(rows)
        sample_meters == SubSeq(ms, 1, Min(3, Len(ms)))
        Records(m) == CountRecords(rows, m)
        Warn(i) == IF Records(sample_meters[i]) # Len(ts)
                   THEN << <<sample_meters[i], Records(sample_meters[i]), Len(ts)>> >>
                   ELSE <<>>
        W[i \in 0..Len(sample_meters)] == IF i = 0 THEN <<>> ELSE W[i - 1] \o Warn(i)
    IN  [errors |->
           (IF Cardinality(unique_meters_in_df) # Len(ms) /\ missing_meters # {}
            THEN << <<"Missing meters in generated data", missing_meters>> >> ELSE <<>>)
           \o (IF duplicates > 0
               THEN << <<"duplicated entries", duplicates>> >> ELSE <<>>)
           \o (IF invalid_kpi > 0
               THEN << <<"records with KPI Trigger != 1", invalid_kpi>> >> ELSE <<>>),
         warnings |-> W[Len(sample_meters)]]

(***************************************************************************)
(* split_dataframe                                                         *)
(***************************************************************************)
\* split_dataframe without the special case of the last chunk
split_dataframe_no_remainder(rows, num_chunks) ==
    IF num_chunks <= 1 THEN <<rows>>
    ELSE LET chunk_size == Len(rows) \div num_chunks
         IN  [k \in 1..num_chunks |->
                SubSeq(rows, (k - 1) * chunk_size + 1, k * chunk_size)]

split_dataframe(rows, num_chunks) ==
    IF num_chunks <= 1 THEN <<rows>>
    ELSE LET chunk_size == Len(rows) \div num_chunks
             start_idx(i) == i * chunk_size
             end_idx(i) == IF i = num_chunks - 1 THEN Len(rows)
                           ELSE (i + 1) * chunk_size
         IN  [k \in 1..num_chunks |->
                SubSeq(rows, start_idx(k - 1) + 1, end_idx(k - 1))]

(***************************************************************************)
(* Inputs.                                                                 *)
(***************************************************************************)
\* the sequences over S of at most n elements
SeqsUpTo(S, n) == UNION {[1..k -> S] : k \in 0..n}

\* cells of an uploaded table
Cells == {NaN, <<" ">>, <<"A">>, <<" ", "A">>, <<"A", " ">>, <<"B">>, <<"B", "A">>}

\* a table of one column, or of two whose second column holds a text
Tables == SeqsUpTo({<<c>> : c \in Cells}, MaxRows)
          \cup SeqsUpTo({<<c, <<"B">> >> : c \in Cells}, MaxRows)

\* the tables uploaded to main()
UploadCells == {<<" ">>, <<"A">>, <<"B", " ">>}

Uploads == SeqsUpTo({<<c>> : c \in UploadCells}, MaxUploadRows)

\* the dates of the sidebar, as day numbers
Dates == 0..MaxDay

\* the values of the slider tried
FileCounts == 1..MaxFiles

\* not assigned yet
None == <<"None">>

(***************************************************************************)
(* main(): the run of the script after a file is uploaded and Generate     *)
(* Data is clicked.  A call of pandas that reads or writes a file, or      *)
(* that depends on the installed version, may raise.                       *)
(***************************************************************************)
Msg(kind, detail) == [kind |-> kind, detail |-> detail]

Init ==
    /\ pc = "upload"
    /\ uploaded_file = None
    /\ start_date \in Dates
    /\ end_date \in Dates
    /\ frequency \in Frequencies
    /\ num_files \in FileCounts
    /\ df = None
    /\ meters = None
    /\ invalid_meters = None
    /\ duplicate_meters = None
    /\ validation_issues = None
    /\ timestamps = None
    /\ full_df = None
    /\ validation_errors = None
    /\ warnings = None
    /\ chunks = None
    /\ zip_files = None
    /\ progress = -1
    /\ st_error = <<>>
    /\ download = FALSE
    /\ raised = None

Sidebar == <<start_date, end_date, frequency, num_files>>
Step2Out == <<meters, invalid_meters, duplicate_meters, validation_issues>>
Step5Out == <<validation_errors, warnings>>
Step6Out == <<chunks, zip_files>>

\* st.file_uploader returns a file
Upload ==
    /\ pc = "upload"
    /\ \E t \in Uploads : uploaded_file' = t
    /\ pc' = "preview"
    /\ UNCHANGED <<Sidebar, df, Step2Out, timestamps, full_df, Step5Out, Step6Out,
                   progress, st_error, download, raised>>

\* lines 202-216: the preview reads the file
Preview ==
    /\ pc = "preview"
    /\ pc' = "button"
    /\ UNCHANGED <<uploaded_file, Sidebar, df, Step2Out, timestamps, full_df,
                   Step5Out, Step6Out, progress, st_error, download, raised>>

\* lines 218-220: the preview's read raises
PreviewFail ==
    /\ pc = "preview"
    /\ st_error' = Append(st_error, Msg("Could not read uploaded file", <<>>))
    /\ pc' = "returned"
    /\ UNCHANGED <<uploaded_file, Sidebar, df, Step2Out, timestamps, full_df,
                   Step5Out, Step6Out, progress, download, raised>>

\* lines 222-236: Generate Data is clicked
Generate ==
    /\ pc = "button"
    /\ progress' = 0
    /\ pc' = "step1"
    /\ UNCHANGED <<uploaded_file, Sidebar, df, Step2Out, timestamps, full_df,
                   Step5Out, Step6Out, st_error, download, raised>>

\* lines 238-245
Step1 ==
    /\ pc = "step1"
    /\ df' = uploaded_file
    /\ progress' = 10
    /\ pc' = "step2"
    /\ UNCHANGED <<uploaded_file, Sidebar, Step2Out, timestamps, full_df,
                   Step5Out, Step6Out, st_error, download, raised>>

\* line 240 raises: the handler of lines 400-403
Step1Fail ==
    /\ pc = "step1"
    /\ st_error' = Append(st_error, Msg("An unexpected error occurred", <<>>))
    /\ pc' = "returned"
    /\ UNCHANGED <<uploaded_file, Sidebar, df, Step2Out, timestamps, full_df,
                   Step5Out, Step6Out, progress, download, raised>>

\* lines 247-286
Step2 ==
    /\ pc = "step2"
    /\ LET r == validate_uploaded_file(df)
       IN  IF r.raised # ""
           THEN /\ st_error' = Append(st_error, Msg("Critical validation error", r.raised))
                /\ pc' = "returned"
                /\ UNCHANGED <<Step2Out, progress>>
           ELSE /\ meters' = r.unique
                /\ invalid_meters' = r.invalid
                /\ duplicate_meters' = r.duplicate
                /\ validation_issues' = r.issues
                /\ progress' = 25
                /\ st_error' =
                     st_error
                     \o (IF r.invalid # <<>>
                         THEN <<Msg("invalid meter entries", Len(r.invalid))>>
                         ELSE <<>>)
                     \o (IF r.unique = <<>>
                         THEN <<Msg("No valid meters found to process", <<>>)>>
                         ELSE <<>>)
                /\ pc' = IF r.unique = <<>> THEN "returned" ELSE "step3"
    /\ UNCHANGED <<uploaded_file, Sidebar, df, timestamps, full_df,
                   Step5Out, Step6Out, download, raised>>

\* lines 288-301
Step3 ==
    /\ pc = "step3"
    /\ timestamps' = generate_timestamps(Midnight(start_date), Midnight(end_date),
                                         frequency)
    /\ progress' = 40
    /\ pc' = "step4"
    /\ UNCHANGED <<uploaded_file, Sidebar, df, Step2Out, full_df,
                   Step5Out, Step6Out, st_error, download, raised>>

\* lines 303-305: pd.date_range raises
Step3Fail ==
    /\ pc = "step3"
    /\ st_error' = Append(st_error, Msg("Error generating timestamps", <<>>))
    /\ pc' = "returned"
    /\ UNCHANGED <<uploaded_file, Sidebar, df, Step2Out, timestamps, full_df,
                   Step5Out, Step6Out, progress, download, raised>>

\* Step4 whose handler shows the error and does not return
Step4_no_return ==
    /\ pc = "step4"
    /\ LET r == create_full_df(meters, timestamps)
       IN  /\ st_error' = IF r.raised # ""
                          THEN Append(st_error, Msg("Error creating dataset", r.raised))
                          ELSE st_error
           /\ full_df' = r.df
           /\ progress' = IF r.raised # "" THEN progress ELSE 60
           /\ pc' = "step5"
    /\ UNCHANGED <<uploaded_file, Sidebar, df, Step2Out, timestamps,
                   Step5Out, Step6Out, download, raised>>

\* lines 307-319
Step4 ==
    /\ pc = "step4"
    /\ LET r == create_full_df(meters, timestamps)
       IN  IF r.raised # ""
           THEN /\ st_error' = Append(st_error, Msg("Error creating dataset", r.raised))
                /\ pc' = "returned"
                /\ UNCHANGED <<full_df, progress>>
           ELSE /\ full_df' = r.df
                /\ progress' = 60
                /\ pc' = "step5"
                /\ UNCHANGED st_error
    /\ UNCHANGED <<uploaded_file, Sidebar, df, Step2Out, timestamps,
                   Step5Out, Step6Out, download, raised>>

\* lines 321-335: the errors are shown and the run goes on
Step5 ==
    /\ pc = "step5"
    /\ LET r == validate_generated_df(full_df, meters, timestamps)
       IN  /\ validation_errors' = r.errors
           /\ warnings' = r.warnings
           /\ st_error' = st_error
                \o [i \in 1..Len(r.errors) |-> Msg("validation error", r.errors[i])]
    /\ progress' = 75
    /\ pc' = "step6"
    /\ UNCHANGED <<uploaded_file, Sidebar, df, Step2Out, timestamps, full_df,
                   Step6Out, download, raised>>

\* the entry of the archive for chunk i: its name's number and its rows
ZipEntry(cs, i) == <<i, cs[i]>>

\* lines 337-357
Step6 ==
    /\ pc = "step6"
    /\ chunks' = split_dataframe(full_df, num_files)
    /\ zip_files' = [i \in 1..Len(chunks') |-> ZipEntry(chunks', i)]
    /\ progress' = 100
    /\ pc' = "results"
    /\ UNCHANGED <<uploaded_file, Sidebar, df, Step2Out, timestamps, full_df,
                   Step5Out, st_error, download, raised>>

\* lines 359-361: writing entry k + 1 raises, the buffer holds k entries
Step6Fail ==
    /\ pc = "step6"
    /\ chunks' = split_dataframe(full_df, num_files)
    /\ \E k \in 0..(Len(chunks') - 1) :
          zip_files' = [i \in 1..k |-> ZipEntry(chunks', i)]
    /\ st_error' = Append(st_error, Msg("Error creating ZIP file", <<>>))
    /\ pc' = "returned"
    /\ UNCHANGED <<uploaded_file, Sidebar, df, Step2Out, timestamps, full_df,
                   Step5Out, progress, download, raised>>

\* lines 363-398: the summary and the download button
Results ==
    /\ pc = "results"
    /\ download' = TRUE
    /\ pc' = "done"
    /\ UNCHANGED <<uploaded_file, Sidebar, df, Step2Out, timestamps, full_df,
                   Step5Out, Step6Out, progress, st_error, raised>>

Next ==
    \/ Upload \/ Preview \/ PreviewFail \/ Generate
    \/ Step1 \/ Step1Fail \/ Step2 \/ Step3 \/ Step3Fail
    \/ Step4 \/ Step5 \/ Step6 \/ Step6Fail \/ Results

Spec == Init /\ [][Next]_vars

(***************************************************************************)
(* The functions called on their own, on inputs drawn from small sets.     *)
(***************************************************************************)
Unset ==
    /\ uploaded_file = None
    /\ zip_files = None
    /\ progress = -1
    /\ st_error = <<>>
    /\ download = FALSE
    /\ raised = None

\* the meters validate_uploaded_file can return: stripped, not empty
MeterNames == {strip(c) : c \in Cells \ {NaN}} \ {<<>>}

NoRepeat(s) == \A i, j \in 1..Len(s) : s[i] = s[j] => i = j

MeterLists == {ms \in SeqsUpTo(MeterNames, MaxMeters) : ms # <<>> /\ NoRepeat(ms)}

\* validate_uploaded_file(df)
InitUpload ==
    /\ pc = "call"
    /\ df \in Tables
    /\ start_date = None /\ end_date = None /\ frequency = None /\ num_files = None
    /\ meters = None /\ invalid_meters = None /\ duplicate_meters = None
    /\ validation_issues = None
    /\ timestamps = None /\ full_df = None
    /\ validation_errors = None /\ warnings = None /\ chunks = None
    /\ Unset

CallValidateUploadedFile ==
    /\ pc = "call"
    /\ LET r == validate_uploaded_file(df)
       IN  /\ raised' = r.raised
           /\ IF r.raised # "" THEN UNCHANGED Step2Out
              ELSE /\ meters' = r.unique
                   /\ invalid_meters' = r.invalid
                   /\ duplicate_meters' = r.duplicate
                   /\ validation_issues' = r.issues
    /\ pc' = "returned"
    /\ UNCHANGED <<uploaded_file, Sidebar, df, timestamps, full_df, Step5Out,
                   Step6Out, progress, st_error, download>>

NextUpload == CallValidateUploadedFile

SpecUpload == InitUpload /\ [][NextUpload]_vars

\* generate_timestamps, create_full_df and validate_generated_df in a row
InitBuild ==
    /\ pc = "call"
    /\ meters \in MeterLists
    /\ start_date \in Dates
    /\ end_date \in Dates
    /\ frequency \in Frequencies
    /\ num_files = None
    /\ df = None /\ invalid_meters = None /\ duplicate_meters = None
    /\ validation_issues = None
    /\ timestamps = None /\ full_df = None
    /\ validation_errors = None /\ warnings = None /\ chunks = None
    /\ Unset

CallGenerateTimestamps ==
    /\ pc = "call"
    /\ timestamps' = generate_timestamps(Midnight(start_date), Midnight(end_date),
                                         frequency)
    /\ pc' = "grid"
    /\ UNCHANGED <<uploaded_file, Sidebar, df, Step2Out, full_df, Step5Out,
                   Step6Out, progress, st_error, download, raised>>

CallCreateFullDf ==
    /\ pc = "grid"
    /\ LET r == create_full_df(meters, timestamps)
       IN  /\ raised' = r.raised
           /\ full_df' = IF r.raised # "" THEN full_df ELSE r.df
           /\ pc' = IF r.raised # "" THEN "raised" ELSE "built"
    /\ UNCHANGED <<uploaded_file, Sidebar, df, Step2Out, timestamps, Step5Out,
                   Step6Out, progress, st_error, download>>

CallValidateGeneratedDf ==
    /\ pc = "built"
    /\ LET r == validate_generated_df(full_df, meters, timestamps)
       IN  /\ validation_errors' = r.errors
           /\ warnings' = r.warnings
    /\ pc' = "validated"
    /\ UNCHANGED <<uploaded_file, Sidebar, df, Step2Out, timestamps, full_df,
                   Step6Out, progress, st_error, download, raised>>

NextBuild == CallGenerateTimestamps \/ CallCreateFullDf \/ CallValidateGeneratedDf

SpecBuild == InitBuild /\ [][NextBuild]_vars

\* rows of a dataset that create_full_df need not have built
Rows == [asset_name : MeterNames,
         Timestamp : {strftime(0), strftime(30)},
         kpi_trigger : {0, 1}]

Datasets == SeqsUpTo(Rows, MaxLen)

\* validate_generated_df(full_df, meters, timestamps) on any dataset
InitValidate ==
    /\ pc = "built"
    /\ full_df \in Datasets
    /\ meters \in MeterLists
    /\ timestamps \in {<<0>>, <<0, 30>>}
    /\ start_date = None /\ end_date = None /\ frequency = None /\ num_files = None
    /\ df = None /\ invalid_meters = None /\ duplicate_meters = None
    /\ validation_issues = None
    /\ validation_errors = None /\ warnings = None /\ chunks = None
    /\ Unset

NextValidate == CallValidateGeneratedDf

SpecValidate == InitValidate /\ [][NextValidate]_vars

\* the datasets split: any rows, and the datasets of one to MaxMeters meters
\* on the grid 00:00, 00:30, 01:00
SplitDatasets ==
    (Datasets \ {<<>>})
    \cup {create_full_df(ms, generate_timestamps(0, 60, "30T")).df : ms \in MeterLists}

\* split_dataframe(full_df, num_files), 1 <= num_files <= len(full_df)
InitSplit ==
    /\ pc = "call"
    /\ full_df \in SplitDatasets
    /\ num_files \in 1..Len(full_df)
    /\ start_date = None /\ end_date = None /\ frequency = None
    /\ df = None /\ meters = None /\ invalid_meters = None /\ duplicate_meters = None
    /\ validation_issues = None /\ timestamps = None
    /\ validation_errors = None /\ warnings = None /\ chunks = None
    /\ Unset

CallSplitDataframe ==
    /\ pc = "call"
    /\ chunks' = split_dataframe(full_df, num_files)
    /\ pc' = "returned"
    /\ UNCHANGED <<uploaded_file, Sidebar, df, Step2Out, timestamps, full_df,
                   Step5Out, zip_files, progress, st_error, download, raised>>

NextSplit == CallSplitDataframe

SpecSplit == InitSplit /\ [][NextSplit]_vars

(***************************************************************************)
(* Properties.                                                             *)
(***************************************************************************)
\* the rows of the first k chunks
RECURSIVE Offset(_, _)
Offset(cs, k) == IF k = 0 THEN 0 ELSE Offset(cs, k - 1) + Len(cs[k])

RECURSIVE Concat(_, _)
Concat(cs, k) == IF k = 0 THEN <<>> ELSE Concat(cs, k - 1) \o cs[k]

\* C2: for 1 <= N <= |D|, the chunks of split_dataframe(D, N) are row ranges
\* of D that follow one another without gap or overlap from the first row to
\* the last, and their concatenation in index order is D.
C2_SplitPartition ==
    pc = "returned" =>
        /\ \A k \in 1..Len(chunks) :
              chunks[k] = SubSeq(full_df, Offset(chunks, k - 1) + 1,
                                 Offset(chunks, k))
        /\ Offset(chunks, Len(chunks)) = Len(full_df)
        /\ Concat(chunks, Len(chunks)) = full_df

\* three rows in two chunks: the last chunk takes the remainder
C2_Witness ==
    /\ pc = "returned"
    /\ Len(full_df) = 3
    /\ num_files = 2
    /\ Len(chunks) = 2
    /\ Len(chunks[1]) = 1
    /\ Len(chunks[2]) = 2

Keys(rows) == {<<rows[i].asset_name, rows[i].Timestamp>> : i \in 1..Len(rows)}

\* C3: the dataset create_full_df returns for distinct meters and a grid holds
\* one row for each pair of a meter and a timestamp and no other row: it has
\* len(meters) * len(grid) rows, no two of them share (MeterId, Timestamp),
\* and every indicator value is 1.
C3_CartesianProduct ==
    pc \in {"built", "validated"} =>
        /\ Len(full_df) = Len(meters) * Len(timestamps)
        /\ Keys(full_df) = {<<meters[a], strftime(timestamps[b])>> :
                               a \in 1..Len(meters), b \in 1..Len(timestamps)}
        /\ Cardinality(Keys(full_df)) = Len(full_df)
        /\ \A i \in 1..Len(full_df) : full_df[i].kpi_trigger = 1

\* two meters on the hourly grid from 31/01/2024 to 01/02/2024
C3_Witness ==
    /\ pc = "built"
    /\ Len(meters) = 2
    /\ Len(timestamps) = 25
    /\ Len(full_df) = 50

\* the instant a text of the format stands for, as <<YYYY, MM, DD, HH, MM>>
Chrono(x) == <<x[3], x[2], x[1], x[4], x[5]>>

ChronoLess(s, t) == FieldsLess(Chrono(s), Chrono(t), 1)

\* C4: the dataset create_full_df returns is sorted by MeterId ascending and,
\* within a meter, by the instant of the timestamp: of two consecutive rows
\* of one meter the first is strictly the earlier.
C4_SortedByInstant ==
    pc = "built" =>
        \A i \in 1..(Len(full_df) - 1) :
            /\ ~StrLess(full_df[i + 1].asset_name, full_df[i].asset_name)
            /\ full_df[i].asset_name = full_df[i + 1].asset_name
                  => ChronoLess(full_df[i].Timestamp, full_df[i + 1].Timestamp)

\* the value of data row i, and whether it is a meter
Value(t, i) == strip(t[i][1])
IsMeter(t, i) == ~pd_isna(t[i][1]) /\ Value(t, i) # <<>>
MeterRows(t) == {i \in 2..Len(t) : IsMeter(t, i)}
FirstRows(t) ==
    {i \in MeterRows(t) : \A j \in MeterRows(t) : j < i => Value(t, j) # Value(t, i)}
RepeatRows(t) == MeterRows(t) \ FirstRows(t)

\* the k-th row of R
KthRow(R, k) == CHOOSE i \in R : Cardinality({j \in R : j <= i}) = k

\* list holds the values of the rows R of t, in row order
ValuesOf(list, t, R) ==
    /\ Len(list) = Cardinality(R)
    /\ \A k \in 1..Len(list) : list[k] = Value(t, KthRow(R, k))

\* C5: on a table with data rows validate_uploaded_file does not fail; its
\* unique-meter list holds each distinct trimmed non-empty data value once, in
\* the order of first occurrence, and its duplicate list one entry for every
\* later repeat, in row order.
C5_FirstSeenOrder ==
    pc = "returned" /\ Len(df) >= 2 =>
        /\ raised = ""
        /\ ValuesOf(meters, df, FirstRows(df))
        /\ ValuesOf(duplicate_meters, df, RepeatRows(df))

\* header, A, B, A gives unique = [A, B], duplicates = [A], invalid = []
C5_Witness ==
    /\ pc = "returned"
    /\ df = << <<<<"B">>>>, <<<<"A">>>>, <<<<"B">>>>, <<<<"A">>>> >>
    /\ meters = << <<"A">>, <<"B">> >>
    /\ duplicate_meters = << <<"A">> >>
    /\ invalid_meters = <<>>

\* C6: validate_generated_df returns no blocking error on the dataset
\* create_full_df built from the same distinct meters and grid.
C6_NoFalsePositive ==
    pc = "validated" => validation_errors = <<>>

\* two meters on the quarter-hourly grid from 31/01/2024 to 01/02/2024
C6_Witness ==
    /\ pc = "validated"
    /\ Len(meters) = 2
    /\ Len(timestamps) = 97
    /\ Len(full_df) = 194
    /\ validation_errors = <<>>

\* C7: validate_generated_df returns a blocking error whenever the distinct
\* MeterId values of the dataset are not the set of input meters, and one
\* naming the missing meters whenever an input meter has no row.
C7_MeterSetChecked ==
    pc = "validated" =>
        /\ UniqueMeters(full_df) # SeqSet(meters) => validation_errors # <<>>
        /\ SeqSet(meters) \ UniqueMeters(full_df) # {} =>
              \E k \in 1..Len(validation_errors) :
                  validation_errors[k][1] = "Missing meters in generated data"

\* C8: on a table of more than one column validate_uploaded_file fails and
\* returns no meter list.
C8_MultiColumnRejected ==
    pc = "returned" /\ Len(df) > 0 =>
        (Len(df[1]) > 1 => raised # "")

Failed(kind) == \E i \in 1..Len(st_error) : st_error[i].kind = kind

\* the messages of the handlers that end the run
StageErrors ==
    {"Could not read uploaded file", "An unexpected error occurred",
     "Critical validation error", "No valid meters found to process",
     "Error generating timestamps", "Error creating dataset",
     "Error creating ZIP file"}

StageFailed == \E kind \in StageErrors : Failed(kind)

\* C9: when the read of the upload, the extraction of the meters (zero valid
\* meters included), the timestamp grid, the building of the dataset or the
\* packaging fails, the run ends there with an error message: no later stage
\* runs (the progress bar stays where the last completed stage left it) and
\* the archive is never offered for download.
C9_FailFast ==
    /\ StageFailed => pc = "returned" /\ ~download
    /\ pc = "returned" => StageFailed
    /\ download => pc = "done" /\ progress = 100 /\ Len(zip_files) = Len(chunks)
    /\ Failed("Could not read uploaded file") => progress = -1
    /\ Failed("An unexpected error occurred") => progress = 0
    /\ Failed("Critical validation error") => progress = 10
    /\ Failed("No valid meters found to process") => progress = 25
    /\ Failed("Error generating timestamps") => progress = 25
    /\ Failed("Error creating dataset") => progress = 40
    /\ Failed("Error creating ZIP file") => progress = 75

\* the packaging failed after it wrote a first entry: nothing is offered
C9_Witness ==
    /\ pc = "returned"
    /\ Failed("Error creating ZIP file")
    /\ Len(st_error) = 1
    /\ Len(chunks) = 2
    /\ Len(zip_files) = 1
    /\ ~download

BlankRows(t) == {i \in 2..Len(t) : pd_isna(t[i][1]) \/ Value(t, i) = <<>>}

\* C10: for every data row whose value is NaN or empty after trimming,
\* validate_uploaded_file records one invalid entry that carries the row's
\* number, its 1-based position in the table with the header as row 1, and
\* the row is in neither the unique-meter nor the duplicate list.
C10_InvalidRowsRecorded ==
    pc = "returned" /\ Len(df) >= 2 =>
        /\ \A i \in BlankRows(df) :
              Cardinality({k \in 1..Len(invalid_meters) : invalid_meters[k][1] = i}) = 1
        /\ Len(meters) + Len(duplicate_meters) = Cardinality(MeterRows(df))

====
